---- MODULE Spec2Model ----
(***************************************************************************)
(* Model of cognite_cdm_file_upload.py: the entry sequence                 *)
(*   get_cognite_client -> ensure_space_exists -> create_cdm_file_instance *)
(*   -> upload_file_content_to_cdm_instance                                *)
(* run against a remote platform holding spaces, instance nodes and file   *)
(* objects.  An Optional value of the script is a sequence of length <= 1: *)
(* None is <<>>, a value x is <<x>>.  Every remote call either fails (the  *)
(* SDK raises) or acts on the remote state; which one is an input.         *)
(***************************************************************************)
EXTENDS Naturals, Sequences, FiniteSets

\* How many times the script is run in a row against the same remote.
MaxRuns == 2

None == <<>>
Some(x) == <<x>>

\* Python truthiness of an Optional[str]: None and "" are falsy.
Truthy(opt) == opt # None /\ opt[1] # ""

-----------------------------------------------------------------------------
\* Local file paths, as character sequences.
TestFileJules == <<".","/","t","e","s","t","_","f","i","l","e","_","j","u","l","e","s",".","t","x","t">>
NotesPath == <<".","/","n","o","t","e","s">>
ScanPath == <<".","/","s","c","a","n",".","P","N","G">>
Paths == {TestFileJules, NotesPath, ScanPath}

\* Values the placeholder variables of the script may be set to.
SpaceIds == {"my_files_space"}
InstanceIds == {"my_document_instance_001", "doc_2"}
MimeArgs == {None, Some(""), Some("text/plain"), Some("application/pdf")}
instance_name == "My Document Example"

\* The environment variables get_cognite_client requires, and what
\* os.getenv may give for each: None, an empty string or a value.
RequiredEnv == {"COGNITE_PROJECT", "COGNITE_TENANT_ID", "COGNITE_CLIENT_ID", "COGNITE_CLIENT_SECRET"}
EnvValues == {None, Some(""), Some("v")}

OctetStream == "application/octet-stream"

-----------------------------------------------------------------------------
\* mimetypes.guess_type, restricted to the extension lookup it performs.

\* Largest index of character c in s, 0 when absent.
RECURSIVE LastIndexOf(_, _, _)
LastIndexOf(s, c, i) ==
    IF i = 0 THEN 0
    ELSE IF s[i] = c THEN i
    ELSE LastIndexOf(s, c, i - 1)

\* posixpath.splitext(path)[1]: from the last dot of the base name, when
\* that dot is not the base name's first character.
SplitExt(path) ==
    LET sep == LastIndexOf(path, "/", Len(path))
        dot == LastIndexOf(path, ".", Len(path))
    IN  IF dot > sep + 1 THEN SubSeq(path, dot, Len(path)) ELSE <<>>

LowerChar(c) ==
    CASE c = "P" -> "p"
      [] c = "N" -> "n"
      [] c = "G" -> "g"
      [] OTHER -> c

Lower(s) == [i \in 1..Len(s) |-> LowerChar(s[i])]

\* The entries of mimetypes.types_map the paths above can hit.
TypesMap(ext) ==
    CASE ext = <<".","t","x","t">> -> Some("text/plain")
      [] ext = <<".","p","n","g">> -> Some("image/png")
      [] OTHER -> None

\* guess_type tries the extension as written, then lower-cased.
GuessType(path) ==
    LET ext == SplitExt(path)
    IN  IF TypesMap(ext) # None THEN TypesMap(ext) ELSE TypesMap(Lower(ext))

-----------------------------------------------------------------------------
VARIABLES
    env,                    \* os.getenv of each required variable
    local_file_path,        \* placeholder: the local file
    cdm_space,              \* placeholder: the target space
    instance_external_id,   \* placeholder: the node's external id
    instance_mime_type,     \* placeholder: the MIME type argument
    fs,                     \* the local paths at which a file exists
    spaces,                 \* remote: the spaces that exist
    instances,              \* remote: the instance nodes (apply requests as stored)
    fileobjs,               \* remote: the content objects
    pc,                     \* position in the entry sequence
    run,                    \* number of the current run
    cognite_client,         \* Optional handle
    ensured,                \* Optional record of ensure_space_exists's call
    created_instance_node,  \* Optional node info
    uploaded_file_meta,     \* Optional file metadata
    calls,                  \* remote calls of this run, in order
    applyReq,               \* Optional: the instance-apply request of this run
    uploadReq,              \* Optional: the upload request of this run
    diag,                   \* the except branch the uploader took
    raised,                 \* an exception escaped a component
    injected,               \* a failure was injected into a call or the read of this run
    prev                    \* Optional summary of the previous run

vars == <<env, local_file_path, cdm_space, instance_external_id, instance_mime_type,
          fs, spaces, instances, fileobjs, pc, run, cognite_client, ensured,
          created_instance_node, uploaded_file_meta, calls, applyReq, uploadReq,
          diag, raised, injected, prev>>

config == <<env, local_file_path, cdm_space, instance_external_id, instance_mime_type, fs>>
remote == <<spaces, instances, fileobjs>>

Call(op, outcome) == [op |-> op, outcome |-> outcome]

\* The operations of calls, in order.
Ops(cs) == [i \in 1..Len(cs) |-> cs[i].op]
CountOp(cs, op) == Cardinality({i \in 1..Len(cs) : cs[i].op = op})
OutcomeOf(cs, op) == {cs[i].outcome : i \in {j \in 1..Len(cs) : cs[j].op = op}}

-----------------------------------------------------------------------------
\* get_cognite_client: all four values truthy, then one token inspection.
\* Mutant: the client secret is not among the values checked.
AllCredentialsButSecret(e) ==
    \A v \in RequiredEnv \ {"COGNITE_CLIENT_SECRET"} : Truthy(e[v])

AllCredentials(e) == \A v \in RequiredEnv : Truthy(e[v])

get_cognite_client(e, inspectFails) ==
    IF ~AllCredentials(e)
    THEN [client |-> None, calls |-> <<>>, raised |-> FALSE]
    ELSE IF inspectFails
    THEN [client |-> None,
          calls |-> <<Call("iam.token.inspect", "error")>>, raised |-> FALSE]
    ELSE [client |-> Some([project |-> e["COGNITE_PROJECT"][1],
                           client_name |-> "cognite-cdm-file-uploader-simplified"]),
          calls |-> <<Call("iam.token.inspect", "ok")>>, raised |-> FALSE]

-----------------------------------------------------------------------------
\* ensure_space_exists.

\* What spaces.retrieve does: raises CogniteNotFoundError for a space the
\* remote does not hold, another error when the call fails.
SpacesRetrieve(sp, space, fails) ==
    IF fails THEN "error"
    ELSE IF space \in sp THEN "found" ELSE "not_found"

\* Mutant: the space is applied whenever the retrieve did not fail, found or not.
ensure_space_exists_always_apply(sp, space_external_id, retrieveFails, applyFails) ==
    LET r == SpacesRetrieve(sp, space_external_id, retrieveFails)
        retrieved == <<Call("spaces.retrieve", r)>>
    IN  IF r = "error"
        THEN [ret |-> FALSE, calls |-> retrieved, spaces |-> sp, raised |-> FALSE]
        ELSE IF applyFails
        THEN [ret |-> FALSE,
              calls |-> Append(retrieved, Call("spaces.apply", "error")),
              spaces |-> sp, raised |-> FALSE]
        ELSE [ret |-> TRUE,
              calls |-> Append(retrieved, Call("spaces.apply", "ok")),
              spaces |-> sp \cup {space_external_id}, raised |-> FALSE]

\* Mutant: only CogniteNotFoundError is caught around the retrieve.
ensure_space_exists_uncaught(sp, space_external_id, retrieveFails, applyFails) ==
    LET r == SpacesRetrieve(sp, space_external_id, retrieveFails)
        retrieved == <<Call("spaces.retrieve", r)>>
    IN  IF r = "found"
        THEN [ret |-> FALSE, calls |-> retrieved, spaces |-> sp, raised |-> FALSE]
        ELSE IF r = "not_found"
        THEN IF applyFails
             THEN [ret |-> FALSE,
                   calls |-> Append(retrieved, Call("spaces.apply", "error")),
                   spaces |-> sp, raised |-> FALSE]
             ELSE [ret |-> TRUE,
                   calls |-> Append(retrieved, Call("spaces.apply", "ok")),
                   spaces |-> sp \cup {space_external_id}, raised |-> FALSE]
        ELSE [ret |-> FALSE, calls |-> retrieved, spaces |-> sp, raised |-> TRUE]

ensure_space_exists(sp, space_external_id, retrieveFails, applyFails) ==
    LET r == SpacesRetrieve(sp, space_external_id, retrieveFails)
        retrieved == <<Call("spaces.retrieve", r)>>
    IN  IF r = "found"
        THEN [ret |-> FALSE, calls |-> retrieved, spaces |-> sp, raised |-> FALSE]
        ELSE IF r = "not_found"
        THEN IF applyFails
             THEN [ret |-> FALSE,
                   calls |-> Append(retrieved, Call("spaces.apply", "error")),
                   spaces |-> sp, raised |-> FALSE]
             ELSE [ret |-> TRUE,
                   calls |-> Append(retrieved, Call("spaces.apply", "ok")),
                   spaces |-> sp \cup {space_external_id}, raised |-> FALSE]
        ELSE [ret |-> FALSE, calls |-> retrieved, spaces |-> sp, raised |-> FALSE]

-----------------------------------------------------------------------------
\* create_cdm_file_instance.

\* The MIME type of the file facet: the argument when truthy, else the guess
\* from the module-level local_file_path, else the generic type.
CreatorMimeType(mime_type) ==
    IF Truthy(mime_type) THEN mime_type[1]
    ELSE IF GuessType(local_file_path) # None THEN GuessType(local_file_path)[1]
    ELSE OctetStream

NodeKey(n) == <<n.space, n.external_id>>

\* The remote applies a node as an upsert keyed by (space, external id).
Upsert(insts, req) == {n \in insts : NodeKey(n) # NodeKey(req)} \cup {req}

\* What instances.apply answers: an error when the call fails or, as the
\* platform holds no instance in a space that does not exist, when the space
\* is absent; else a result with the applied node, or an empty result.
InstancesApply(sp, space, answer) ==
    IF space \notin sp THEN "error" ELSE answer

\* Mutant: an empty result is taken for a created node.
CreatedNodeInfoUnchecked(answer, space, instance_ext_id) ==
    IF answer # "error"
    THEN Some([space |-> space, external_id |-> instance_ext_id])
    ELSE None

\* What the function returns for the call's answer.
CreatedNodeInfo(answer, space, instance_ext_id) ==
    IF answer = "ok"
    THEN Some([space |-> space, external_id |-> instance_ext_id])
    ELSE None

create_cdm_file_instance(sp, insts, space, instance_ext_id, file_content_ext_id, name, mime_type, answer) ==
    LET cognite_file_source == [file_external_id |-> file_content_ext_id,
                                name |-> name,
                                mime_type |-> CreatorMimeType(mime_type)]
        instance_to_apply == [space |-> space, external_id |-> instance_ext_id,
                              sources |-> <<cognite_file_source>>]
        a == InstancesApply(sp, space, answer)
    IN  [node |-> CreatedNodeInfo(a, space, instance_ext_id),
         calls |-> <<Call("instances.apply", a)>>,
         req |-> Some(instance_to_apply),
         instances |-> IF a = "ok" THEN Upsert(insts, instance_to_apply) ELSE insts,
         raised |-> FALSE]

-----------------------------------------------------------------------------
\* upload_file_content_to_cdm_instance.

\* Mutant: no guess, the generic type whenever the argument is falsy.
UploaderMimeTypeNoGuess(local_path, mime_type) ==
    IF Truthy(mime_type) THEN mime_type[1] ELSE OctetStream

\* The MIME type sent with the upload: the argument when truthy, else the
\* guess from local_path, else the generic type.
UploaderMimeType(local_path, mime_type) ==
    IF Truthy(mime_type) THEN mime_type[1]
    ELSE IF GuessType(local_path) # None THEN GuessType(local_path)[1]
    ELSE OctetStream

\* open(local_path, 'rb') and read(): FileNotFoundError when no file is at
\* the path, another error when the read fails.
ReadLocal(files, local_path, readFails) ==
    IF local_path \notin files THEN "file_not_found"
    ELSE IF readFails THEN "error" ELSE "ok"

\* Mutant: one except branch for every exception.
ExceptBranchGeneric(raisedError) == "error"

\* The except branch taken when the read or the upload raises:
\* FileNotFoundError has its own, any other exception the generic one.
ExceptBranch(raisedError) ==
    IF raisedError = "file_not_found" THEN "file_not_found" ELSE "error"

\* The remote stores an uploaded object as an upsert keyed by external id.
UpsertFile(objs, req) == {o \in objs : o.external_id # req.external_id} \cup {req}

upload_file_content_to_cdm_instance(files, objs, local_path, file_content_ext_id, cdm_instance_space, cdm_instance_external_id, mime_type, readFails, uploadFails) ==
    LET rd == ReadLocal(files, local_path, readFails)
        req == [external_id |-> file_content_ext_id,
                mime_type |-> UploaderMimeType(local_path, mime_type),
                source_id |-> [space |-> cdm_instance_space,
                               external_id |-> cdm_instance_external_id]]
    IN  IF rd = "file_not_found"
        THEN [meta |-> None, calls |-> <<>>, req |-> None, fileobjs |-> objs,
              diag |-> ExceptBranch(rd), raised |-> FALSE]
        ELSE IF rd = "error"
        THEN [meta |-> None, calls |-> <<>>, req |-> None, fileobjs |-> objs,
              diag |-> ExceptBranch(rd), raised |-> FALSE]
        ELSE IF uploadFails
        THEN [meta |-> None, calls |-> <<Call("files.upload_bytes", "error")>>,
              req |-> Some(req), fileobjs |-> objs,
              diag |-> ExceptBranch("error"), raised |-> FALSE]
        ELSE [meta |-> Some(req), calls |-> <<Call("files.upload_bytes", "ok")>>,
              req |-> Some(req), fileobjs |-> UpsertFile(objs, req),
              diag |-> "none", raised |-> FALSE]

-----------------------------------------------------------------------------
\* The entry sequence.

\* Mutant: the content object gets the node's own external id.
FileContentExternalIdBare(instance_ext_id) == instance_ext_id

\* file_content_external_id = f"{instance_external_id}_content"
FileContentExternalId(instance_ext_id) == instance_ext_id \o "_content"

\* Mutant: the entry sequence goes on only when the space was created.
AfterEnsureGated(space_was_created) ==
    IF space_was_created THEN "create" ELSE "end"

\* ensure_space_exists(cognite_client, cdm_space) is called as a statement:
\* whatever it returns, create_cdm_file_instance comes next.
AfterEnsure(space_was_created) == "create"

\* Mutant: the entry sequence goes on without a client.
ClientReadyAlways(client) == TRUE

\* if cognite_client:
ClientReady(client) == client # None

\* if created_instance_node:
NodeCreated(node) == node # None

Init ==
    /\ env \in [RequiredEnv -> EnvValues]
    /\ local_file_path \in Paths
    /\ cdm_space \in SpaceIds
    /\ instance_external_id \in InstanceIds
    /\ instance_mime_type \in MimeArgs
    /\ fs \in SUBSET Paths
    /\ spaces \in SUBSET SpaceIds
    /\ instances = {}
    /\ fileobjs = {}
    /\ pc = "init"
    /\ run = 1
    /\ cognite_client = None
    /\ ensured = None
    /\ created_instance_node = None
    /\ uploaded_file_meta = None
    /\ calls = <<>>
    /\ applyReq = None
    /\ uploadReq = None
    /\ diag = "none"
    /\ raised = FALSE
    /\ injected = FALSE
    /\ prev = None

\* cognite_client = get_cognite_client()
GetClient ==
    /\ pc = "init"
    /\ \E inspectFails \in BOOLEAN :
         LET r == get_cognite_client(env, inspectFails)
         IN  /\ cognite_client' = r.client
             /\ calls' = calls \o r.calls
             /\ raised' = r.raised
             /\ injected' = (injected \/ inspectFails)
             /\ pc' = IF r.raised THEN "crashed"
                      ELSE IF ClientReady(r.client) THEN "ensure" ELSE "end"
    /\ UNCHANGED <<config, remote, run, ensured, created_instance_node,
                   uploaded_file_meta, applyReq, uploadReq, diag, prev>>

\* ensure_space_exists(cognite_client, cdm_space); the result is not used.
EnsureSpace ==
    /\ pc = "ensure"
    /\ \E retrieveFails \in BOOLEAN, applyFails \in BOOLEAN :
         LET r == ensure_space_exists(spaces, cdm_space, retrieveFails, applyFails)
         IN  /\ spaces' = r.spaces
             /\ ensured' = Some([ret |-> r.ret, before |-> spaces])
             /\ calls' = calls \o r.calls
             /\ raised' = r.raised
             /\ injected' = (injected \/ retrieveFails \/ applyFails)
             /\ pc' = IF r.raised THEN "crashed" ELSE AfterEnsure(r.ret)
    /\ UNCHANGED <<config, instances, fileobjs, run, cognite_client,
                   created_instance_node, uploaded_file_meta, applyReq,
                   uploadReq, diag, prev>>

\* created_instance_node = create_cdm_file_instance(...)
CreateInstance ==
    /\ pc = "create"
    /\ \E answer \in {"ok", "empty", "error"} :
         LET r == create_cdm_file_instance(spaces, instances, cdm_space,
                      instance_external_id,
                      FileContentExternalId(instance_external_id),
                      instance_name, instance_mime_type, answer)
         IN  /\ instances' = r.instances
             /\ created_instance_node' = r.node
             /\ applyReq' = r.req
             /\ calls' = calls \o r.calls
             /\ raised' = r.raised
             /\ injected' = (injected \/ answer # "ok")
             /\ pc' = IF r.raised THEN "crashed"
                      ELSE IF NodeCreated(r.node) THEN "upload" ELSE "end"
    /\ UNCHANGED <<config, spaces, fileobjs, run, cognite_client, ensured,
                   uploaded_file_meta, uploadReq, diag, prev>>

\* uploaded_file_meta = upload_file_content_to_cdm_instance(...)
UploadContent ==
    /\ pc = "upload"
    /\ \E readFails \in BOOLEAN, uploadFails \in BOOLEAN :
         LET r == upload_file_content_to_cdm_instance(fs, fileobjs,
                      local_file_path,
                      FileContentExternalId(instance_external_id),
                      created_instance_node[1].space,
                      created_instance_node[1].external_id,
                      instance_mime_type, readFails, uploadFails)
         IN  /\ fileobjs' = r.fileobjs
             /\ uploaded_file_meta' = r.meta
             /\ uploadReq' = r.req
             /\ diag' = r.diag
             /\ calls' = calls \o r.calls
             /\ raised' = r.raised
             /\ injected' = (injected \/ readFails \/ uploadFails)
             /\ pc' = IF r.raised THEN "crashed" ELSE "end"
    /\ UNCHANGED <<config, spaces, instances, run, cognite_client, ensured,
                   created_instance_node, applyReq, prev>>

\* The script is run again, with the same placeholders and environment,
\* against the remote state the previous run left.
Rerun ==
    /\ pc = "end"
    /\ run < MaxRuns
    /\ prev' = Some([node |-> created_instance_node, meta |-> uploaded_file_meta,
                     calls |-> calls, remote |-> remote])
    /\ run' = run + 1
    /\ pc' = "init"
    /\ cognite_client' = None
    /\ ensured' = None
    /\ created_instance_node' = None
    /\ uploaded_file_meta' = None
    /\ calls' = <<>>
    /\ applyReq' = None
    /\ uploadReq' = None
    /\ diag' = "none"
    /\ raised' = FALSE
    /\ injected' = FALSE
    /\ UNCHANGED <<config, remote>>

Next == GetClient \/ EnsureSpace \/ CreateInstance \/ UploadContent \/ Rerun

Spec == Init /\ [][Next]_vars

-----------------------------------------------------------------------------
\* Properties of the entry sequence.

UploadCalls == CountOp(calls, "files.upload_bytes")
ApplyAnswers == OutcomeOf(calls, "instances.apply")

\* C1: files.upload_bytes is issued only after an instances.apply call of the
\* same run succeeded and returned a node; when create_cdm_file_instance
\* returns None (the apply raised, or its result was empty) the uploader is
\* never invoked and no upload call is made.
C1_UploadOnlyAfterNode ==
    /\ \A i \in 1..Len(calls) :
         calls[i].op = "files.upload_bytes" =>
            \E j \in 1..(i - 1) :
               calls[j].op = "instances.apply" /\ calls[j].outcome = "ok"
    /\ (pc = "upload" \/ uploadReq # None \/ diag # "none") =>
          (created_instance_node # None /\ ApplyAnswers = {"ok"})
    /\ (applyReq # None /\ ApplyAnswers # {"ok"}) =>
          /\ created_instance_node = None
          /\ UploadCalls = 0
          /\ pc \in {"end", "crashed"}

C1_Witness ==
    /\ pc = "end"
    /\ ApplyAnswers = {"empty"}
    /\ created_instance_node = None
    /\ UploadCalls = 0

\* C2: when any one of the four required environment values is missing,
\* get_cognite_client returns None without a token inspection, and the run
\* issues no remote call at all and leaves the remote as it was.
C2_MissingEnvNoCalls ==
    \A v \in RequiredEnv :
       ~Truthy(env[v]) =>
          /\ calls = <<>>
          /\ cognite_client = None
          /\ pc \in {"init", "end"}
          /\ ensured = None /\ applyReq = None /\ uploadReq = None
          /\ instances = {} /\ fileobjs = {}
          /\ prev # None => (prev[1].calls = <<>> /\ prev[1].remote = remote)

C2_Witness ==
    /\ pc = "end"
    /\ env["COGNITE_CLIENT_SECRET"] = None
    /\ \A v \in RequiredEnv \ {"COGNITE_CLIENT_SECRET"} : Truthy(env[v])
    /\ calls = <<>>

\* C9: the remote calls of a run occur in the order token inspection, space
\* retrieve, space apply, instance apply, upload, each at most once; when the
\* token inspection fails no later call is issued.
Rank(op) ==
    CASE op = "iam.token.inspect" -> 1
      [] op = "spaces.retrieve" -> 2
      [] op = "spaces.apply" -> 3
      [] op = "instances.apply" -> 4
      [] op = "files.upload_bytes" -> 5

C9_FixedCallOrder ==
    /\ \A i \in 1..Len(calls), j \in 1..Len(calls) :
          i < j => Rank(calls[i].op) < Rank(calls[j].op)
    /\ calls # <<>> => calls[1].op = "iam.token.inspect"
    /\ (calls # <<>> /\ calls[1].outcome = "error") =>
          (Len(calls) = 1 /\ cognite_client = None /\ pc = "end")

C9_Witness ==
    /\ pc = "end"
    /\ Ops(calls) = <<"iam.token.inspect", "spaces.retrieve", "spaces.apply",
                      "instances.apply", "files.upload_bytes">>

RetrieveOutcomes == OutcomeOf(calls, "spaces.retrieve")
SpaceApplyOutcomes == OutcomeOf(calls, "spaces.apply")
SpaceApplyCalls == CountOp(calls, "spaces.apply")

\* C3: ensure_space_exists issues exactly one retrieve; on not-found it
\* issues exactly one space apply and returns True exactly when that apply
\* succeeds; on found it issues no apply and leaves the remote spaces as
\* they were.
C3_EnsureSpaceCalls ==
    ensured # None =>
       /\ CountOp(calls, "spaces.retrieve") = 1
       /\ RetrieveOutcomes = {"not_found"} =>
             /\ SpaceApplyCalls = 1
             /\ ensured[1].ret <=> (SpaceApplyOutcomes = {"ok"})
             /\ ensured[1].ret => spaces = ensured[1].before \cup {cdm_space}
       /\ RetrieveOutcomes = {"found"} =>
             /\ SpaceApplyCalls = 0
             /\ ensured[1].ret = FALSE
             /\ spaces = ensured[1].before

C3_Witness ==
    /\ ensured # None
    /\ RetrieveOutcomes = {"not_found"}
    /\ SpaceApplyOutcomes = {"ok"}
    /\ ensured[1].ret
    /\ cdm_space \in spaces /\ cdm_space \notin ensured[1].before

\* C4: when the retrieve fails with an error other than not-found, no space
\* apply is issued, False is returned and nothing is raised; when the apply
\* after a not-found fails, False is returned and nothing is raised.
C4_EnsureSpaceErrors ==
    ensured # None =>
       /\ RetrieveOutcomes = {"error"} =>
             /\ SpaceApplyCalls = 0
             /\ ensured[1].ret = FALSE
             /\ spaces = ensured[1].before
             /\ pc # "crashed"
       /\ SpaceApplyOutcomes = {"error"} =>
             /\ RetrieveOutcomes = {"not_found"}
             /\ ensured[1].ret = FALSE
             /\ spaces = ensured[1].before
             /\ pc # "crashed"

\* A first run whose retrieve failed, then a run whose space apply failed.
C4_Witness ==
    /\ pc = "create"
    /\ ensured # None
    /\ RetrieveOutcomes = {"not_found"}
    /\ SpaceApplyOutcomes = {"error"}
    /\ ensured[1].ret = FALSE
    /\ ~raised
    /\ prev # None
    /\ OutcomeOf(prev[1].calls, "spaces.retrieve") = {"error"}
    /\ CountOp(prev[1].calls, "spaces.apply") = 0

\* C5 as claimed: the instance apply is issued only when the target space
\* exists on the remote.
C5_ApplyOnlyInExistingSpace ==
    applyReq # None => cdm_space \in spaces

\* C5, amended: the instance apply is issued only after ensure_space_exists
\* of the same run has returned, and whatever it returned: once it returned,
\* the apply is issued, also when the space was neither found nor created;
\* only a run without a client stops before it.
C5_ApplyAfterEnsureReturns ==
    /\ applyReq # None =>
          /\ ensured # None
          /\ \E i \in 1..Len(calls), j \in 1..Len(calls) :
                /\ i < j
                /\ calls[i].op = "spaces.retrieve"
                /\ calls[j].op = "instances.apply"
    /\ (ensured # None /\ pc # "create") => applyReq # None
    /\ cognite_client = None => (ensured = None /\ applyReq = None)

C5_Witness ==
    /\ applyReq # None
    /\ ensured # None
    /\ ensured[1].ret = FALSE
    /\ cdm_space \notin spaces

\* C8: a run that follows a fully successful run, with the same identifiers
\* and with no call failing, succeeds with the same identifiers, issues no
\* space apply, and leaves the remote holding the same single space, single
\* node and single content object.
C8_RerunIdempotent ==
    (prev # None /\ prev[1].meta # None /\ pc = "end" /\ ~injected) =>
       /\ uploaded_file_meta # None
       /\ created_instance_node = prev[1].node
       /\ uploaded_file_meta[1].external_id = prev[1].meta[1].external_id
       /\ uploaded_file_meta[1].source_id = prev[1].meta[1].source_id
       /\ SpaceApplyCalls = 0
       /\ remote = prev[1].remote
       /\ spaces = {cdm_space}
       /\ Cardinality(instances) = 1
       /\ Cardinality(fileobjs) = 1

C8_Witness ==
    /\ run = 2
    /\ pc = "end"
    /\ ~injected
    /\ prev # None
    /\ prev[1].meta # None
    /\ OutcomeOf(prev[1].calls, "spaces.apply") = {"ok"}
    /\ uploaded_file_meta # None
    /\ remote = prev[1].remote

\* C6: after a successful upload, the external id sent with the upload is
\* "<instance_external_id>_content", the id carried in the file facet of the
\* run's instance apply, and the upload's source id is the (space, external
\* id) of the node that apply returned, which is the pair requested.
C6_UploadIdentifiers ==
    uploaded_file_meta # None =>
       /\ uploadReq # None /\ applyReq # None /\ created_instance_node # None
       /\ uploadReq[1].external_id = instance_external_id \o "_content"
       /\ uploadReq[1].external_id = applyReq[1].sources[1].file_external_id
       /\ uploaded_file_meta[1].external_id = uploadReq[1].external_id
       /\ uploadReq[1].source_id = created_instance_node[1]
       /\ uploadReq[1].source_id =
             [space |-> cdm_space, external_id |-> instance_external_id]
       /\ NodeKey(applyReq[1]) = <<cdm_space, instance_external_id>>
       /\ applyReq[1] \in instances
       /\ uploadReq[1] \in fileobjs

C6_Witness ==
    /\ pc = "end"
    /\ uploaded_file_meta # None
    /\ instance_external_id = "my_document_instance_001"
    /\ uploaded_file_meta[1].external_id = "my_document_instance_001_content"

FileObjsBefore == IF prev = None THEN {} ELSE prev[1].remote[3]

\* C7: the uploader given a path at which no file exists returns None by the
\* FileNotFoundError branch, raises nothing and issues no upload call; any
\* other failure of the read or the upload also returns None without
\* raising, and the upload is never attempted twice.
C7_UploaderFailures ==
    /\ UploadCalls <= 1
    /\ uploaded_file_meta # None => diag = "none"
    /\ (created_instance_node # None /\ pc # "upload") =>
          /\ pc = "end"
          /\ local_file_path \notin fs =>
                /\ uploaded_file_meta = None
                /\ diag = "file_not_found"
                /\ UploadCalls = 0
                /\ uploadReq = None
                /\ fileobjs = FileObjsBefore
          /\ (local_file_path \in fs /\ uploaded_file_meta = None) =>
                /\ diag = "error"
                /\ fileobjs = FileObjsBefore

\* The uploader was invoked with a path at which no file exists.
C7_Witness ==
    /\ pc = "end"
    /\ created_instance_node # None
    /\ local_file_path \notin fs
    /\ diag = "file_not_found"
    /\ uploaded_file_meta = None
    /\ UploadCalls = 0

\* A failure other than a missing file: the upload call itself raised.
C7_WitnessOther ==
    /\ pc = "end"
    /\ local_file_path \in fs
    /\ OutcomeOf(calls, "files.upload_bytes") = {"error"}
    /\ diag = "error"

\* C10: with the MIME type argument omitted, the facet's MIME type is the
\* type guessed from local_file_path, or application/octet-stream when none
\* is guessed, and the uploader applies the same rule to the local path it
\* is given; a supplied MIME type is used unchanged by both; for the one
\* file of a run the facet's type equals the type sent with the upload.
C10_MimeTypeResolution ==
    /\ applyReq # None =>
          LET m == applyReq[1].sources[1].mime_type
          IN  /\ (instance_mime_type = None /\ GuessType(local_file_path) # None) =>
                    m = GuessType(local_file_path)[1]
              /\ (instance_mime_type = None /\ GuessType(local_file_path) = None) =>
                    m = "application/octet-stream"
              /\ Truthy(instance_mime_type) => m = instance_mime_type[1]
    /\ uploadReq # None =>
          LET m == uploadReq[1].mime_type
          IN  /\ (instance_mime_type = None /\ GuessType(local_file_path) # None) =>
                    m = GuessType(local_file_path)[1]
              /\ (instance_mime_type = None /\ GuessType(local_file_path) = None) =>
                    m = "application/octet-stream"
              /\ Truthy(instance_mime_type) => m = instance_mime_type[1]
    /\ (applyReq # None /\ uploadReq # None) =>
          applyReq[1].sources[1].mime_type = uploadReq[1].mime_type

C10_Witness ==
    /\ instance_mime_type = None
    /\ local_file_path = TestFileJules
    /\ applyReq # None
    /\ uploadReq # None
    /\ applyReq[1].sources[1].mime_type = "text/plain"
    /\ uploadReq[1].mime_type = "text/plain"

\* The other cases of the rule: an upper-case extension, and no extension.
C10_WitnessFallback ==
    /\ instance_mime_type = None
    /\ local_file_path = NotesPath
    /\ uploadReq # None
    /\ uploadReq[1].mime_type = "application/octet-stream"
    /\ GuessType(ScanPath) = Some("image/png")

====
